---------------------------- MODULE Spec2Model ----------------------------
(***************************************************************************)
(* A model of the CSV table viewer: the line scanner parseCSVLine, the     *)
(* parser parseCSV, the row filter applyFilters, and the view (App) that   *)
(* loads /data.csv and keeps data, headers, filters and filteredData.      *)
(*                                                                         *)
(* A string is a sequence of one-character strings; JavaScript indices     *)
(* are zero based and are kept that way in the loop counters.              *)
(***************************************************************************)
EXTENDS Integers, Sequences, FiniteSets, TLC

VARIABLES
    \* ---- parseCSVLine as a loop (src/unnamed/part_000:37-63)
    line,           \* the argument
    i,              \* the loop counter (zero based)
    currentValue,   \* the field buffer
    inQuotes,       \* the quote flag
    result,         \* the fields pushed so far
    scanPc,         \* "idle" | "loop" | "done"
    \* ---- applyFilters as a function (src/unnamed/part_000:92-107)
    filtersToApply, \* the argument: column -> filter string
    dataToFilter,   \* the argument: the rows
    filtered,       \* the rows returned
    filteredAgain,  \* the rows returned when the rows returned are filtered again
    filterPc,       \* "idle" | "call" | "done" | "again" | "threw"
    \* ---- the view (App)
    variant,        \* "debounced" (part_000) | "explicit" (part_001:1-409) | "simple" (part_001:410-647)
    csvText,        \* the body of /data.csv
    loadPc,         \* where loadCSVData is: "idle" | "mount" | "fetching" | "reading" | "done"
    fetchCount,     \* how many times fetch was called
    data,
    filteredData,
    filters,
    filtersVersion,     \* which object filters is: one more with every setFilters
    headers,
    isLoading,
    error,
    isFiltering,
    rowsToDisplay,
    filterValue,        \* the one filter of the simple variant
    debouncedFilters,   \* useDebounce's debouncedValue
    debouncedVersion,   \* which object debouncedValue is
    debounceTimers,     \* useDebounce's timeouts that are set and not cleared
    filterTimers,       \* the filter effect's timeouts that are set and not cleared
    \* ---- what the last step of the view was, and the state it started in
    history

scanVars == <<line, i, currentValue, inQuotes, result, scanPc>>

filterVars == <<filtersToApply, dataToFilter, filtered, filteredAgain, filterPc>>

viewVars == <<variant, csvText, loadPc, fetchCount, data, filteredData, filters, filtersVersion,
              headers, isLoading, error, isFiltering, rowsToDisplay, filterValue,
              debouncedFilters, debouncedVersion, debounceTimers, filterTimers, history>>

vars == <<scanVars, filterVars, viewVars>>

-----------------------------------------------------------------------------
(* Bounds *)

MaxLineLen == 5

MaxTextLen == 5

MaxRows == 2

\* how many times setFilters may run in the debounced variant, the load's included
MaxEdits == 3

\* how many of rowsPerPageOptions, from the first on, the user picks from
MaxOption == 3

\* the rows of the long file: one more than the explicit-apply variant renders
ManyRows == 101

-----------------------------------------------------------------------------
(* Characters and strings *)

Quote == "\""
Comma == ","
LF == "\n"
Space == " "

\* what String.prototype.trim strips (of the characters the model uses)
IsWhitespace(c) == c \in {" ", "\n", "\t", "\r"}

\* The characters a line is drawn from.
LineAlphabet == {"a", "1", Space, Comma, Quote}

RECURSIVE StringsUpTo(_, _)
StringsUpTo(alphabet, n) ==
    IF n = 0 THEN {<<>>}
    ELSE LET shorter == StringsUpTo(alphabet, n - 1)
         IN  shorter \cup {Append(s, c) : s \in {t \in shorter : Len(t) = n - 1}, c \in alphabet}

\* line[i] of JavaScript: undefined past the end
CharAt(s, k) == IF k >= 0 /\ k < Len(s) THEN s[k + 1] ELSE "undefined"

\* receiver.method(): a TypeError when the receiver is undefined, unless the call is
\* written receiver?.method()
MethodCallThrows(receiverDefined, optionalChaining) ==
    ~receiverDefined /\ ~optionalChaining

RECURSIVE trimStart(_)
trimStart(s) ==
    IF s # <<>> /\ IsWhitespace(Head(s)) THEN trimStart(Tail(s)) ELSE s

RECURSIVE trimEnd(_)
trimEnd(s) ==
    IF s # <<>> /\ IsWhitespace(s[Len(s)]) THEN trimEnd(SubSeq(s, 1, Len(s) - 1)) ELSE s

\* String.prototype.trim
trim(s) == trimEnd(trimStart(s))

-----------------------------------------------------------------------------
(* parseCSVLine *)

\* A mutant of ScanStep: the comma splits whether or not the scan is inside quotes.
ScanStepCommaAlwaysSplits(ln, st) ==
    LET char == CharAt(ln, st.i)
        nextChar == CharAt(ln, st.i + 1)
    IN  IF char = Quote
        THEN IF st.inQuotes /\ nextChar = Quote
             THEN [st EXCEPT !.currentValue = Append(@, Quote), !.i = @ + 2]
             ELSE [st EXCEPT !.inQuotes = ~@, !.i = @ + 1]
        ELSE IF char = Comma
             THEN [st EXCEPT !.result = Append(@, trim(st.currentValue)),
                             !.currentValue = <<>>, !.i = @ + 1]
             ELSE [st EXCEPT !.currentValue = Append(@, char), !.i = @ + 1]

\* One iteration of the for loop, the i++ of the loop header included.
ScanStep(ln, st) ==
    LET char == CharAt(ln, st.i)
        nextChar == CharAt(ln, st.i + 1)
    IN  IF char = Quote
        THEN IF st.inQuotes /\ nextChar = Quote
             THEN [st EXCEPT !.currentValue = Append(@, Quote), !.i = @ + 2]
             ELSE [st EXCEPT !.inQuotes = ~@, !.i = @ + 1]
        ELSE IF char = Comma /\ ~st.inQuotes
             THEN [st EXCEPT !.result = Append(@, trim(st.currentValue)),
                             !.currentValue = <<>>, !.i = @ + 1]
             ELSE [st EXCEPT !.currentValue = Append(@, char), !.i = @ + 1]

\* The locals before the loop.
ScanStart == [i |-> 0, currentValue |-> <<>>, inQuotes |-> FALSE, result |-> <<>>]

\* The push after the loop.
ScanFinish(st) == Append(st.result, trim(st.currentValue))

RECURSIVE ScanLoop(_, _)
ScanLoop(ln, st) ==
    IF st.i < Len(ln) THEN ScanLoop(ln, ScanStep(ln, st)) ELSE st

parseCSVLine(ln) == ScanFinish(ScanLoop(ln, ScanStart))

-----------------------------------------------------------------------------
(* parseCSV *)

\* String.prototype.split with a one-character separator: never empty, <<s>> when
\* s holds no separator (so "" gives one empty piece). The pieces of a string are the
\* pieces of its halves, the last of the left half joined to the first of the right.
RECURSIVE split(_, _)
split(s, sep) ==
    IF Len(s) = 0 THEN << <<>> >>
    ELSE IF Len(s) = 1 THEN (IF s[1] = sep THEN << <<>>, <<>> >> ELSE <<s>>)
    ELSE LET half == Len(s) \div 2
             left == split(SubSeq(s, 1, half), sep)
             right == split(SubSeq(s, half + 1, Len(s)), sep)
         IN  SubSeq(left, 1, Len(left) - 1)
                 \o <<left[Len(left)] \o right[1]>>
                 \o Tail(right)

\* A row (TableRow) is an object: keys in insertion order, and the value of each.
EmptyObject == [keys |-> <<>>, val |-> <<>>]

HasKey(obj, k) == k \in DOMAIN obj.val

\* A mutant of SetProperty: a key once set keeps its first value.
SetPropertyFirstWins(obj, k, v) ==
    IF HasKey(obj, k) THEN obj
    ELSE [keys |-> Append(obj.keys, k), val |-> (k :> v) @@ obj.val]

\* obj[k] = v: a new key goes last, a key already set keeps its place
SetProperty(obj, k, v) ==
    [keys |-> IF HasKey(obj, k) THEN obj.keys ELSE Append(obj.keys, k),
     val  |-> (k :> v) @@ obj.val]

DigitValue(c) ==
    CASE c = "0" -> 0 [] c = "1" -> 1 [] c = "2" -> 2 [] c = "3" -> 3 [] c = "4" -> 4
      [] c = "5" -> 5 [] c = "6" -> 6 [] c = "7" -> 7 [] c = "8" -> 8 [] c = "9" -> 9
      [] OTHER -> -1

RECURSIVE NumericValue(_)
NumericValue(s) ==
    IF s = <<>> THEN 0
    ELSE 10 * NumericValue(SubSeq(s, 1, Len(s) - 1)) + DigitValue(s[Len(s)])

\* A property name that is an array index (a canonical decimal below 2^32 - 1):
\* Object.keys lists these first, in increasing order. Names of up to nine digits
\* are all below that limit; longer ones are beyond the texts of the model.
IsArrayIndex(k) ==
    /\ k # <<>>
    /\ \A j \in 1..Len(k) : DigitValue(k[j]) >= 0
    /\ (Len(k) = 1 \/ k[1] # "0")
    /\ Len(k) <= 9

RECURSIVE SortedByValue(_)
SortedByValue(ks) ==
    IF ks = {} THEN <<>>
    ELSE LET least == CHOOSE k \in ks : \A m \in ks : NumericValue(k) <= NumericValue(m)
         IN  <<least>> \o SortedByValue(ks \ {least})

\* Object.keys(obj)
ObjectKeys(obj) ==
    SortedByValue({k \in DOMAIN obj.val : IsArrayIndex(k)})
        \o SelectSeq(obj.keys, LAMBDA k : ~IsArrayIndex(k))

\* A mutant of ValueOrEmpty: the field one place to the right.
ValueOrEmptyShifted(values, index) ==
    IF index + 1 < Len(values) /\ values[index + 2] # <<>> THEN values[index + 2] ELSE <<>>

\* values[index] || ''
ValueOrEmpty(values, index) ==
    IF index < Len(values) /\ values[index + 1] # <<>> THEN values[index + 1] ELSE <<>>

RECURSIVE BuildRowFrom(_, _, _, _)
BuildRowFrom(hdrs, values, index, row) ==
    IF index >= Len(hdrs) THEN row
    ELSE BuildRowFrom(hdrs, values, index + 1,
                      SetProperty(row, hdrs[index + 1], ValueOrEmpty(values, index)))

\* const row = {}; headers.forEach((header, index) => row[header] = values[index] || '')
BuildRow(hdrs, values) == BuildRowFrom(hdrs, values, 0, EmptyObject)

\* const headers = lines[0].split(',').map(header => header.trim())
HeaderNames(lines) ==
    LET raw == split(lines[1], Comma)
    IN  [k \in 1..Len(raw) |-> trim(raw[k])]

\* A mutant of IsBlankLine: only the empty line is skipped.
IsBlankLineNoTrim(ln) == ln = <<>>

\* const currentLine = lines[i].trim(); if (!currentLine) continue
IsBlankLine(ln) == trim(ln) = <<>>

\* A mutant of LoopContinues: the loop runs one index too far.
LoopContinuesOneTooFar(idx, lines) == idx <= Len(lines)

\* i < lines.length
LoopContinues(idx, lines) == idx < Len(lines)

\* the values of i the for loop runs its body with: from 1 on, while i < lines.length
LoopIndices(lines) ==
    {idx \in 1..Len(lines) : \A j \in 1..idx : LoopContinues(j, lines)}

\* The for loop: a row pushed for every index whose line is not blank, in order.
\* lines[i] past the end is undefined, and lines[i].trim() then raises: threw.
ParseRows(lines, hdrs) ==
    LET visited == LoopIndices(lines)
        pushed == SelectSeq([idx \in 1..Len(lines) |-> idx],
                            LAMBDA idx : idx \in visited /\ ~IsBlankLine(lines[idx + 1]))
    IN  IF \E idx \in visited : MethodCallThrows(idx < Len(lines), FALSE)
        THEN [threw |-> TRUE, rows |-> <<>>]
        ELSE [threw |-> FALSE,
              rows |-> [n \in 1..Len(pushed) |->
                          BuildRow(hdrs, parseCSVLine(trim(lines[pushed[n] + 1])))]]

\* A mutant of parseCSV: a line feed inside quotes does not end the line.
parseCSVQuotedLineFeeds(text) ==
    LET quotesBefore(p) == Cardinality({j \in 1..p : text[j] = Quote})
        cuts == {p \in 1..Len(text) : text[p] = LF /\ quotesBefore(p) % 2 = 0}
        cutAt(m) == IF m = 0 THEN 0
                    ELSE IF m > Cardinality(cuts) THEN Len(text) + 1
                    ELSE CHOOSE p \in cuts : Cardinality({j \in cuts : j < p}) = m - 1
        lines == [m \in 1..(Cardinality(cuts) + 1) |->
                     SubSeq(text, cutAt(m - 1) + 1, cutAt(m) - 1)]
    IN  ParseRows(lines, HeaderNames(lines))

\* parseCSV(csvText): the rows, or threw
parseCSV(text) ==
    LET lines == split(text, LF)
    IN  IF Len(lines) = 0 THEN [threw |-> FALSE, rows |-> <<>>]
        ELSE IF MethodCallThrows(Len(lines) > 0, FALSE) THEN [threw |-> TRUE, rows |-> <<>>]
        ELSE ParseRows(lines, HeaderNames(lines))

-----------------------------------------------------------------------------
(* applyFilters *)

LowerChar(c) ==
    CASE c = "A" -> "a" [] c = "B" -> "b" [] OTHER -> c

\* String.prototype.toLowerCase
toLowerCase(s) == [k \in 1..Len(s) |-> LowerChar(s[k])]

\* String.prototype.includes
includes(s, t) == \E k \in 0..(Len(s) - Len(t)) : SubSeq(s, k + 1, k + Len(t)) = t

\* Object.values(filtersToApply).every(val => !val.trim())
AllFiltersBlank(F) == \A column \in DOMAIN F : trim(F[column]) = <<>>

\* row[column]?.toLowerCase() || ''
CellValue(row, column) ==
    IF HasKey(row, column) THEN toLowerCase(row.val[column]) ELSE <<>>

\* whether row[column]?.toLowerCase() raises
CellValueThrows(row, column) == MethodCallThrows(HasKey(row, column), TRUE)

\* A mutant of SearchValue: the filter text as typed.
SearchValueAsTyped(val) == val

\* filterValue.toLowerCase().trim()
SearchValue(val) == trim(toLowerCase(val))

\* the callback of dataToFilter.filter
RowPasses(F, row) ==
    \A column \in DOMAIN F :
        IF trim(F[column]) = <<>> THEN TRUE
        ELSE includes(CellValue(row, column), SearchValue(F[column]))

\* A mutant of applyFilters: no value is trimmed.
applyFiltersNoTrim(F, R) ==
    IF \A column \in DOMAIN F : F[column] = <<>> THEN R
    ELSE SelectSeq(R, LAMBDA row :
            \A column \in DOMAIN F :
                IF F[column] = <<>> THEN TRUE
                ELSE includes(CellValue(row, column), toLowerCase(F[column])))

\* A mutant of applyFilters: the rows that pass, last first.
applyFiltersReversed(F, R) ==
    LET kept == SelectSeq(R, LAMBDA row : RowPasses(F, row))
    IN  [k \in 1..Len(kept) |-> kept[Len(kept) + 1 - k]]

\* A mutant of applyFilters: the first row is taken for a header line and left out.
applyFiltersSkipsFirst(F, R) ==
    IF AllFiltersBlank(F) THEN R
    ELSE SelectSeq(IF R = <<>> THEN R ELSE Tail(R), LAMBDA row : RowPasses(F, row))

\* Whether applyFilters(F, R) raises instead of returning. every() stops at the first
\* entry that fails, so this asks more than the code evaluates; it is exact as long
\* as no cell access raises.
applyFiltersThrows(F, R) ==
    /\ ~AllFiltersBlank(F)
    /\ \E k \in 1..Len(R) : \E column \in DOMAIN F :
          trim(F[column]) # <<>> /\ CellValueThrows(R[k], column)

\* applyFilters(filtersToApply, dataToFilter)
applyFilters(F, R) ==
    IF AllFiltersBlank(F) THEN R
    ELSE SelectSeq(R, LAMBDA row : RowPasses(F, row))

-----------------------------------------------------------------------------
(* The view: state *)

\* error === null
NoError == "null"

\* the message of a response that is not ok: `Ошибка загрузки: ${response.status}`
StatusError == "load error: status"

\* err.message of a rejected fetch or a rejected response.text()
TransportError == "transport error"

\* err.message of a TypeError raised while parsing
TypeError == "TypeError"

\* no timeout of useDebounce is set
NoDebounceTimer == {}

\* no timeout of the filter effect is set
NoFilterTimer == {}

\* nothing has happened in the view yet
NoHistory ==
    [event |-> "none", data |-> <<>>, headers |-> <<>>, filters |-> <<>>,
     filteredData |-> <<>>, debouncedVersion |-> 0, used |-> <<>>, usedVersion |-> 0,
     forced |-> -1, reset |-> -1, superseded |-> {}]

Range(seq) == {seq[k] : k \in 1..Len(seq)}

\* filters[column] || ''
FilterOf(F, column) == IF column \in DOMAIN F THEN F[column] ELSE <<>>

\* const rowsPerPageOptions
rowsPerPageOptions == <<50, 100, 200, 500, 1000>>

\* The useState initial values.
InitialState ==
    /\ data = <<>>
    /\ filteredData = <<>>
    /\ filters = <<>>
    /\ filtersVersion = 0
    /\ headers = <<>>
    /\ isLoading = TRUE
    /\ error = NoError
    /\ isFiltering = FALSE
    /\ rowsToDisplay = 100
    /\ filterValue = <<>>
    /\ debouncedFilters = <<>>
    /\ debouncedVersion = 0
    /\ debounceTimers = NoDebounceTimer
    /\ filterTimers = NoFilterTimer
    /\ fetchCount = 0
    /\ history = NoHistory

\* The view as constructed, before the first effects run.
ViewConstructed == loadPc = "mount" /\ InitialState

\* The page past its loading and error screens: the controls exist.
ControlsShown == ~isLoading /\ error = NoError

\* the step that is being taken and the state it starts in
Started(event) ==
    [history EXCEPT !.event = event, !.data = data, !.headers = headers,
                    !.filters = filters, !.filteredData = filteredData,
                    !.debouncedVersion = debouncedVersion]

\* the same for a step that runs a filter pass with the filter map F, the object
\* number version
StartedPass(event, F, version) ==
    [Started(event) EXCEPT !.used = F, !.usedVersion = version]

\* the same for a step that replaces the filters object while the timeouts in timers
\* are set for older ones
StartedEdit(event, timers) ==
    [Started(event) EXCEPT !.superseded = @ \cup {t.version : t \in timers}]

-----------------------------------------------------------------------------
(* The view: what is rendered *)

\* Array.prototype.slice(0, end), end >= 0
slice(s, end) == SubSeq(s, 1, IF end < Len(s) THEN end ELSE Len(s))

\* A mutant of displayRowsCount: every row of filteredData.
displayRowsCountAll == Len(filteredData)

\* displayRowsCount (part_000:220-225)
displayRowsCount ==
    IF rowsToDisplay >= Len(filteredData) THEN Len(filteredData) ELSE rowsToDisplay

\* renderTableRows (part_000:228-252): the rows that get a <tr>; null renders none
renderTableRows ==
    IF Len(filteredData) = 0 THEN <<>> ELSE slice(filteredData, displayRowsCount)

\* filteredData.slice(0, 100).map (part_001:319)
renderedRowsExplicit == slice(filteredData, 100)

\* filteredData.map (part_001:622)
renderedRowsSimple == filteredData

\* the rows of the table body
RenderedRows ==
    CASE variant = "debounced" -> renderTableRows
      [] variant = "explicit" -> renderedRowsExplicit
      [] OTHER -> renderedRowsSimple

-----------------------------------------------------------------------------
(* The view: effects of the debounced variant *)

\* A mutant of DebounceEffect: the timeout of the last run is not cleared.
DebounceEffectNoCleanup(timers, newFilters, newVersion) ==
    timers \cup {[value |-> newFilters, version |-> newVersion]}

\* useDebounce's effect after a render with a new filters object: the cleanup clears
\* the timeout of the last run, and one for the new object is set.
DebounceEffect(timers, newFilters, newVersion) ==
    (timers \ timers) \cup {[value |-> newFilters, version |-> newVersion]}

\* A mutant of FilterEffectTimer: the effect sets no timeout.
FilterEffectTimerNever(timers, newDebounced, newVersion, newData) == NoFilterTimer

\* A mutant of FilterEffectTimer: the timeout of the last run is not cleared.
FilterEffectTimerNoCleanup(timers, newDebounced, newVersion, newData) ==
    IF Len(newData) = 0 THEN timers
    ELSE timers \cup {[filters |-> newDebounced, version |-> newVersion, data |-> newData]}

\* A mutant of FilterEffectFlag: setIsFiltering(true) before the test of data.length.
FilterEffectFlagFirst(newData, flag) == TRUE

\* The filter effect after a render with a new debouncedFilters or data: the cleanup
\* clears the timeout of the last run; no new one while data is empty.
FilterEffectTimer(timers, newDebounced, newVersion, newData) ==
    IF Len(newData) = 0 THEN timers \ timers
    ELSE (timers \ timers)
            \cup {[filters |-> newDebounced, version |-> newVersion, data |-> newData]}

\* setIsFiltering(true) of the same effect run
FilterEffectFlag(newData, flag) == IF Len(newData) = 0 THEN flag ELSE TRUE

-----------------------------------------------------------------------------
(* The view: loadCSVData *)

\* The first commit: useDebounce's effect sets its timeout, the filter effect runs
\* (and returns at once, data being empty), loadCSVData starts and awaits fetch.
Mount ==
    /\ loadPc = "mount"
    /\ loadPc' = "fetching"
    /\ fetchCount' = fetchCount + 1
    /\ isLoading' = TRUE
    /\ error' = NoError
    /\ debounceTimers' = IF variant = "debounced"
                         THEN DebounceEffect(debounceTimers, filters, filtersVersion)
                         ELSE debounceTimers
    /\ filterTimers' = IF variant = "debounced"
                       THEN FilterEffectTimer(filterTimers, debouncedFilters,
                                              debouncedVersion, data)
                       ELSE filterTimers
    /\ isFiltering' = IF variant = "debounced" THEN FilterEffectFlag(data, isFiltering)
                      ELSE isFiltering
    /\ history' = Started("Mount")
    /\ UNCHANGED <<variant, csvText, data, filteredData, filters, filtersVersion, headers,
                   rowsToDisplay, filterValue, debouncedFilters, debouncedVersion>>
    /\ UNCHANGED <<scanVars, filterVars>>

\* A mutant of AfterFailure: the load starts over.
AfterFailureRetry == "mount"

\* where loadCSVData is after it has reported a failure: it has returned, and the
\* effect that called it does not run again
AfterFailure == "done"

\* A mutant of LoadingAfterFinally: the load ends without setIsLoading(false).
LoadingAfterFinallyKept == TRUE

\* finally { setIsLoading(false) }, and setIsLoading(false) before the return of the
\* branch for a response that is not ok
LoadingAfterFinally == FALSE

\* the failure is reported: setError, setIsLoading(false)
Failed(message) ==
    /\ loadPc' = AfterFailure
    /\ error' = message
    /\ isLoading' = LoadingAfterFinally
    /\ UNCHANGED <<variant, csvText, fetchCount, data, filteredData, filters, filtersVersion,
                   headers, isFiltering, rowsToDisplay, filterValue, debouncedFilters,
                   debouncedVersion, debounceTimers, filterTimers>>
    /\ UNCHANGED <<scanVars, filterVars>>

\* fetch resolved with a response that is not ok: the message is set and the function
\* returns (part_000:139-143, part_001:77-81), or an Error with that message is thrown
\* and caught (part_001:431-433, 440-445)
FetchNotOk ==
    /\ loadPc = "fetching"
    /\ history' = Started("FetchNotOk")
    /\ Failed(StatusError)

\* fetch rejected: catch, finally
FetchRejected ==
    /\ loadPc = "fetching"
    /\ history' = Started("FetchRejected")
    /\ Failed(TransportError)

\* fetch resolved with an ok response: await response.text()
FetchOk ==
    /\ loadPc = "fetching"
    /\ loadPc' = "reading"
    /\ history' = Started("FetchOk")
    /\ UNCHANGED <<variant, csvText, fetchCount, data, filteredData, filters, filtersVersion,
                   headers, isLoading, error, isFiltering, rowsToDisplay, filterValue,
                   debouncedFilters, debouncedVersion, debounceTimers, filterTimers>>
    /\ UNCHANGED <<scanVars, filterVars>>

\* response.text() rejected: catch, finally
TextRejected ==
    /\ loadPc = "reading"
    /\ history' = Started("TextRejected")
    /\ Failed(TransportError)

\* A mutant of InitialFilters: a filter for the first column only.
InitialFiltersFirstOnly(firstRow) ==
    [header \in {ObjectKeys(firstRow)[1]} |-> <<>>]

\* initialFilters: '' for every key of the first row
InitialFilters(firstRow) == [header \in Range(ObjectKeys(firstRow)) |-> <<>>]

\* response.text() resolved: parseCSV, the setters, finally; then the render and, in
\* the debounced variant, the effects whose dependencies changed. The simple variant
\* (part_001:436-439) sets data and filteredData whatever the number of rows.
TextResolved ==
    /\ loadPc = "reading"
    /\ loadPc' = "done"
    /\ isLoading' = LoadingAfterFinally
    /\ LET parsed == parseCSV(csvText)
       IN  IF parsed.threw
           THEN /\ error' = TypeError
                /\ history' = Started("TextResolved")
                /\ UNCHANGED <<data, filteredData, filters, filtersVersion, headers,
                               isFiltering, debounceTimers, filterTimers>>
           ELSE IF variant = "simple"
           THEN /\ data' = parsed.rows
                /\ filteredData' = parsed.rows
                /\ history' = Started("TextResolved")
                /\ UNCHANGED <<filters, filtersVersion, headers, error, isFiltering,
                               debounceTimers, filterTimers>>
           ELSE IF Len(parsed.rows) > 0
           THEN /\ headers' = ObjectKeys(parsed.rows[1])
                /\ data' = parsed.rows
                /\ filters' = InitialFilters(parsed.rows[1])
                /\ error' = error
                /\ IF variant = "explicit"
                   THEN /\ filteredData' = parsed.rows
                        /\ history' = Started("TextResolved")
                        /\ UNCHANGED <<filtersVersion, isFiltering, debounceTimers,
                                       filterTimers>>
                   ELSE /\ filteredData' = filteredData
                        /\ filtersVersion' = filtersVersion + 1
                        /\ debounceTimers' = DebounceEffect(debounceTimers, filters',
                                                            filtersVersion')
                        /\ filterTimers' = FilterEffectTimer(filterTimers, debouncedFilters,
                                                             debouncedVersion, data')
                        /\ isFiltering' = FilterEffectFlag(data', isFiltering)
                        /\ history' = StartedEdit("TextResolved", debounceTimers)
           ELSE /\ history' = Started("TextResolved")
                /\ UNCHANGED <<data, filteredData, filters, filtersVersion, headers, error,
                               isFiltering, debounceTimers, filterTimers>>
    /\ UNCHANGED <<variant, csvText, fetchCount, rowsToDisplay, filterValue,
                   debouncedFilters, debouncedVersion>>
    /\ UNCHANGED <<scanVars, filterVars>>

LoadNext == Mount \/ FetchNotOk \/ FetchRejected \/ FetchOk \/ TextRejected \/ TextResolved

-----------------------------------------------------------------------------
(* The view: handlers of the debounced variant (part_000) *)

\* A filter value the user may type.
FilterInputs == {<<>>, <<"a">>, <<" ", "B">>}

\* setFilters with a new object, then the render and useDebounce's effect
SetFiltersDebounced(newFilters) ==
    /\ filtersVersion < MaxEdits
    /\ filters' = newFilters
    /\ filtersVersion' = filtersVersion + 1
    /\ debounceTimers' = DebounceEffect(debounceTimers, newFilters, filtersVersion')
    /\ UNCHANGED <<variant, csvText, loadPc, fetchCount, data, filteredData, headers,
                   isLoading, error, isFiltering, rowsToDisplay, filterValue,
                   debouncedFilters, debouncedVersion, filterTimers>>
    /\ UNCHANGED <<scanVars, filterVars>>

\* handleFilterChange(column, value), from the input of a column
handleFilterChange ==
    /\ variant = "debounced"
    /\ ControlsShown
    /\ history' = StartedEdit("handleFilterChange", debounceTimers)
    /\ \E column \in Range(headers), value \in FilterInputs :
          /\ value # FilterOf(filters, column)
          /\ SetFiltersDebounced((column :> value) @@ filters)

\* resetFilter(column), from the button shown while filters[column] is not empty
resetFilter ==
    /\ variant = "debounced"
    /\ ControlsShown
    /\ history' = StartedEdit("resetFilter", debounceTimers)
    /\ \E column \in Range(headers) :
          /\ FilterOf(filters, column) # <<>>
          /\ SetFiltersDebounced((column :> <<>>) @@ filters)

\* A mutant of ResetFilters: the first column keeps its filter.
ResetFiltersButFirst ==
    [header \in Range(headers) |->
        IF header = headers[1] THEN FilterOf(filters, header) ELSE <<>>]

\* resetFilters: '' for every header
ResetFilters == [header \in Range(headers) |-> <<>>]

\* resetAllFilters()
resetAllFilters ==
    /\ variant = "debounced"
    /\ ControlsShown
    /\ history' = [StartedEdit("resetAllFilters", debounceTimers)
                      EXCEPT !.reset = filtersVersion + 1]
    /\ SetFiltersDebounced(ResetFilters)

\* handleKeyDown with Enter, in the input of a column; if applyFilters raises, the
\* handler ends there and no state is set
handleKeyDown ==
    /\ variant = "debounced"
    /\ ControlsShown
    /\ headers # <<>>
    /\ filteredData' = IF applyFiltersThrows(filters, data) THEN filteredData
                       ELSE applyFilters(filters, data)
    /\ history' = [StartedPass("handleKeyDown", filters, filtersVersion)
                      EXCEPT !.forced = filtersVersion]
    /\ UNCHANGED <<variant, csvText, loadPc, fetchCount, data, filters, filtersVersion,
                   headers, isLoading, error, isFiltering, rowsToDisplay, filterValue,
                   debouncedFilters, debouncedVersion, debounceTimers, filterTimers>>
    /\ UNCHANGED <<scanVars, filterVars>>

\* handleRowsToDisplayChange(value), from the select of rowsPerPageOptions
handleRowsToDisplayChange ==
    /\ variant = "debounced"
    /\ ControlsShown
    /\ \E value \in {rowsPerPageOptions[k] : k \in 1..MaxOption} :
          /\ value # rowsToDisplay
          /\ rowsToDisplay' = value
    /\ history' = Started("handleRowsToDisplayChange")
    /\ UNCHANGED <<variant, csvText, loadPc, fetchCount, data, filteredData, filters,
                   filtersVersion, headers, isLoading, error, isFiltering, filterValue,
                   debouncedFilters, debouncedVersion, debounceTimers, filterTimers>>
    /\ UNCHANGED <<scanVars, filterVars>>

\* A timeout of useDebounce fires: setDebouncedValue(value). The object that is the
\* debounced value already changes nothing; another one renders again and the filter
\* effect runs.
DebounceTimerFires ==
    /\ variant = "debounced"
    /\ \E timer \in debounceTimers :
          /\ debounceTimers' = debounceTimers \ {timer}
          /\ IF timer.version = debouncedVersion
             THEN UNCHANGED <<debouncedFilters, debouncedVersion, filterTimers, isFiltering>>
             ELSE /\ debouncedFilters' = timer.value
                  /\ debouncedVersion' = timer.version
                  /\ filterTimers' = FilterEffectTimer(filterTimers, timer.value,
                                                       timer.version, data)
                  /\ isFiltering' = FilterEffectFlag(data, isFiltering)
    /\ history' = Started("DebounceTimerFires")
    /\ UNCHANGED <<variant, csvText, loadPc, fetchCount, data, filteredData, filters,
                   filtersVersion, headers, isLoading, error, rowsToDisplay, filterValue>>
    /\ UNCHANGED <<scanVars, filterVars>>

\* the filter effect's timeout fires: the pass over the rows it captured (try), the
\* error logged if it raises (catch), setIsFiltering(false) (finally)
FilterTimerFires ==
    /\ variant = "debounced"
    /\ \E timer \in filterTimers :
          /\ filterTimers' = filterTimers \ {timer}
          /\ filteredData' = IF applyFiltersThrows(timer.filters, timer.data)
                             THEN filteredData
                             ELSE applyFilters(timer.filters, timer.data)
          /\ history' = StartedPass("FilterTimerFires", timer.filters, timer.version)
    /\ isFiltering' = FALSE
    /\ UNCHANGED <<variant, csvText, loadPc, fetchCount, data, filters, filtersVersion,
                   headers, isLoading, error, rowsToDisplay, filterValue, debouncedFilters,
                   debouncedVersion, debounceTimers>>
    /\ UNCHANGED <<scanVars, filterVars>>

DebouncedNext ==
    \/ handleFilterChange
    \/ resetFilter
    \/ resetAllFilters
    \/ handleKeyDown
    \/ handleRowsToDisplayChange
    \/ DebounceTimerFires
    \/ FilterTimerFires

-----------------------------------------------------------------------------
(* The view: handlers of the explicit-apply variant (part_001:1-409) *)

\* A mutant of AppliedRows: the pass runs over the rows that are shown.
AppliedRowsOverShown(F, R, shown) ==
    IF applyFiltersThrows(F, shown) THEN shown ELSE applyFilters(F, shown)

\* applyFilters() of the explicit-apply variant (part_001:110-128): the rows it
\* passes to setFilteredData, from the filters and data of the render it closes over
AppliedRows(F, R, shown) == IF applyFiltersThrows(F, R) THEN shown ELSE applyFilters(F, R)

\* A mutant of SetFiltersExplicit: the edit also runs the filter pass.
SetFiltersExplicitApplies(newFilters) ==
    /\ filters' = newFilters
    /\ filteredData' = AppliedRows(newFilters, data, filteredData)
    /\ UNCHANGED <<variant, csvText, loadPc, fetchCount, data, filtersVersion, headers,
                   isLoading, error, isFiltering, rowsToDisplay, filterValue,
                   debouncedFilters, debouncedVersion, debounceTimers, filterTimers>>
    /\ UNCHANGED <<scanVars, filterVars>>

\* setFilters alone
SetFiltersExplicit(newFilters) ==
    /\ filters' = newFilters
    /\ UNCHANGED <<variant, csvText, loadPc, fetchCount, data, filteredData, filtersVersion,
                   headers, isLoading, error, isFiltering, rowsToDisplay, filterValue,
                   debouncedFilters, debouncedVersion, debounceTimers, filterTimers>>
    /\ UNCHANGED <<scanVars, filterVars>>

\* setFilters and setFilteredData in one handler
SetFiltersAndShown(newFilters, newShown) ==
    /\ filters' = newFilters
    /\ filteredData' = newShown
    /\ UNCHANGED <<variant, csvText, loadPc, fetchCount, data, filtersVersion, headers,
                   isLoading, error, isFiltering, rowsToDisplay, filterValue,
                   debouncedFilters, debouncedVersion, debounceTimers, filterTimers>>
    /\ UNCHANGED <<scanVars, filterVars>>

\* handleFilterChange(column, value)
handleFilterChangeExplicit ==
    /\ variant = "explicit"
    /\ ControlsShown
    /\ history' = Started("handleFilterChangeExplicit")
    /\ \E column \in Range(headers), value \in FilterInputs :
          /\ value # FilterOf(filters, column)
          /\ SetFiltersExplicit((column :> value) @@ filters)

\* resetFilter(column)
resetFilterExplicit ==
    /\ variant = "explicit"
    /\ ControlsShown
    /\ history' = Started("resetFilterExplicit")
    /\ \E column \in Range(headers) :
          /\ FilterOf(filters, column) # <<>>
          /\ SetFiltersExplicit((column :> <<>>) @@ filters)

\* applyFilters(), from the Apply button or from Enter in an input: it reads the
\* filters and data of the render it was created in
applyFiltersExplicit ==
    /\ variant = "explicit"
    /\ ControlsShown
    /\ history' = StartedPass("applyFiltersExplicit", filters, filtersVersion)
    /\ SetFiltersAndShown(filters, AppliedRows(filters, data, filteredData))

\* resetAllFilters()
resetAllFiltersExplicit ==
    /\ variant = "explicit"
    /\ ControlsShown
    /\ history' = Started("resetAllFiltersExplicit")
    /\ SetFiltersAndShown(ResetFilters, data)

\* the quick action 'show all rows': handleFilterChange(headers[0], '') queues the
\* update, applyFilters() then reads the filters of the current render
showAllRows ==
    /\ variant = "explicit"
    /\ ControlsShown
    /\ headers # <<>>
    /\ headers[1] # <<>>
    /\ history' = StartedPass("showAllRows", filters, filtersVersion)
    /\ SetFiltersAndShown((headers[1] :> <<>>) @@ filters,
                          AppliedRows(filters, data, filteredData))

\* the quick action 'clear and show all': one queued update per header, then
\* applyFilters() with the filters of the current render
clearAndShowAll ==
    /\ variant = "explicit"
    /\ ControlsShown
    /\ history' = StartedPass("clearAndShowAll", filters, filtersVersion)
    /\ SetFiltersAndShown(ResetFilters @@ filters, AppliedRows(filters, data, filteredData))

ExplicitNext ==
    \/ handleFilterChangeExplicit
    \/ resetFilterExplicit
    \/ applyFiltersExplicit
    \/ resetAllFiltersExplicit
    \/ showAllRows
    \/ clearAndShowAll

-----------------------------------------------------------------------------
(* The view: handlers of the simple variant (part_001:410-647) *)

\* the frame of the simple variant's handlers: they set filterValue and filteredData
SetValueAndShown(newValue, newShown) ==
    /\ filterValue' = newValue
    /\ filteredData' = newShown
    /\ UNCHANGED <<variant, csvText, loadPc, fetchCount, data, filters, filtersVersion,
                   headers, isLoading, error, isFiltering, rowsToDisplay,
                   debouncedFilters, debouncedVersion, debounceTimers, filterTimers>>
    /\ UNCHANGED <<scanVars, filterVars>>

\* setFilterValue(e.target.value)
setFilterValue ==
    /\ variant = "simple"
    /\ ControlsShown
    /\ history' = Started("setFilterValue")
    /\ \E value \in FilterInputs :
          /\ value # filterValue
          /\ SetValueAndShown(value, filteredData)

\* the callback of data.filter in applyFilter: the key at index 4 must exist and not
\* be the empty string, and its cell must hold the search value
FifthColumnPasses(row, value) ==
    LET keys == ObjectKeys(row)
    IN  /\ Len(keys) >= 5
        /\ keys[5] # <<>>
        /\ includes(toLowerCase(row.val[keys[5]]), SearchValue(value))

\* applyFilter(), from the button or from Enter in the input
applyFilter ==
    /\ variant = "simple"
    /\ ControlsShown
    /\ history' = Started("applyFilter")
    /\ SetValueAndShown(filterValue,
                        IF trim(filterValue) = <<>> THEN data
                        ELSE SelectSeq(data, LAMBDA row : FifthColumnPasses(row, filterValue)))

\* resetFilter()
resetFilterSimple ==
    /\ variant = "simple"
    /\ ControlsShown
    /\ history' = Started("resetFilterSimple")
    /\ SetValueAndShown(<<>>, data)

SimpleNext ==
    \/ setFilterValue
    \/ applyFilter
    \/ resetFilterSimple

-----------------------------------------------------------------------------
(* Specifications *)

ScanIdle ==
    /\ line = <<>>
    /\ i = 0
    /\ currentValue = <<>>
    /\ inQuotes = FALSE
    /\ result = <<>>
    /\ scanPc = "idle"

FilterIdle ==
    /\ filtersToApply = <<>>
    /\ dataToFilter = <<>>
    /\ filtered = <<>>
    /\ filteredAgain = <<>>
    /\ filterPc = "idle"

\* no view: the functions are called on their own
ViewIdle ==
    /\ variant = "debounced"
    /\ csvText = <<>>
    /\ loadPc = "idle"
    /\ InitialState

Variants == {"debounced", "explicit", "simple"}

\* ---- parseCSVLine, one loop iteration per step

ScanState == [i |-> i, currentValue |-> currentValue, inQuotes |-> inQuotes, result |-> result]

ScanInit ==
    /\ line \in StringsUpTo(LineAlphabet, MaxLineLen)
    /\ i = ScanStart.i
    /\ currentValue = ScanStart.currentValue
    /\ inQuotes = ScanStart.inQuotes
    /\ result = ScanStart.result
    /\ scanPc = "loop"
    /\ FilterIdle
    /\ ViewIdle

ScanIterate ==
    /\ scanPc = "loop"
    /\ i < Len(line)
    /\ LET st == ScanStep(line, ScanState)
       IN  /\ i' = st.i
           /\ currentValue' = st.currentValue
           /\ inQuotes' = st.inQuotes
           /\ result' = st.result
    /\ UNCHANGED <<line, scanPc, filterVars, viewVars>>

ScanReturn ==
    /\ scanPc = "loop"
    /\ i >= Len(line)
    /\ result' = ScanFinish(ScanState)
    /\ scanPc' = "done"
    /\ UNCHANGED <<line, i, currentValue, inQuotes, filterVars, viewVars>>

ScanNext == ScanIterate \/ ScanReturn

SpecLine == ScanInit /\ [][ScanNext]_vars

\* ---- loadCSVData over every text of the bound

TextAlphabet == LineAlphabet \cup {LF}

LoadInit ==
    /\ ScanIdle
    /\ FilterIdle
    /\ variant \in Variants
    /\ csvText \in StringsUpTo(TextAlphabet, MaxTextLen)
    /\ ViewConstructed

SpecLoad == LoadInit /\ [][LoadNext]_vars

\* ---- applyFilters over the rows and filter maps of the bound

ColumnNames == {<<"a">>, <<"b">>}

CellValues == {<<>>, <<"a">>, <<"A", "b">>, <<"b">>}

FilterValues == {<<>>, <<" ">>, <<"a">>, <<"A", " ">>, <<" ", "B">>}

\* rows with the column a alone and rows with both columns
FilterRows ==
    {BuildRow(<< <<"a">> >>, <<x>>) : x \in CellValues}
        \cup {BuildRow(<< <<"a">>, <<"b">> >>, <<x, y>>) : x \in CellValues, y \in CellValues}

FilterMaps == UNION {[D -> FilterValues] : D \in SUBSET ColumnNames}

FilterInit ==
    /\ ScanIdle
    /\ ViewIdle
    /\ filtersToApply \in FilterMaps
    /\ dataToFilter \in StringsUpTo(FilterRows, MaxRows)
    /\ filtered = <<>>
    /\ filteredAgain = <<>>
    /\ filterPc = "call"

\* applyFilters(filtersToApply, dataToFilter)
FilterCall ==
    /\ filterPc = "call"
    /\ IF applyFiltersThrows(filtersToApply, dataToFilter)
       THEN filtered' = filtered /\ filterPc' = "threw"
       ELSE filtered' = applyFilters(filtersToApply, dataToFilter) /\ filterPc' = "done"
    /\ UNCHANGED <<filtersToApply, dataToFilter, filteredAgain, scanVars, viewVars>>

\* applyFilters(filtersToApply, filtered): the rows returned go through once more
FilterCallAgain ==
    /\ filterPc = "done"
    /\ IF applyFiltersThrows(filtersToApply, filtered)
       THEN filteredAgain' = filteredAgain /\ filterPc' = "threw"
       ELSE filteredAgain' = applyFilters(filtersToApply, filtered) /\ filterPc' = "again"
    /\ UNCHANGED <<filtersToApply, dataToFilter, filtered, scanVars, viewVars>>

FilterNext == FilterCall \/ FilterCallAgain

SpecFilter == FilterInit /\ [][FilterNext]_vars

\* ---- parseCSV through loadCSVData, and applyFilters: every input of the bounds

TotalInit == LoadInit \/ FilterInit

TotalNext == LoadNext \/ FilterNext

SpecTotal == TotalInit /\ [][TotalNext]_vars

\* ---- the view, its three variants, over a few files

\* the decimal digits of a number
Digits == <<"0", "1", "2", "3", "4", "5", "6", "7", "8", "9">>

RECURSIVE Decimal(_)
Decimal(n) ==
    IF n < 10 THEN <<Digits[n + 1]>> ELSE Append(Decimal(n \div 10), Digits[(n % 10) + 1])

\* the lines 'from' to 'to', each after a line feed
RECURSIVE NumberedLines(_, _)
NumberedLines(from, to) ==
    IF from > to THEN <<>>
    ELSE IF from = to THEN <<LF>> \o Decimal(from)
    ELSE LET mid == (from + to) \div 2
         IN  NumberedLines(from, mid) \o NumberedLines(mid + 1, to)

\* a file of one column, a, and ManyRows rows: '1', '2', ...
LongText == <<"a">> \o NumberedLines(1, ManyRows)

\* 'a,b\na,A\nb,\nAb,b'; 'a,b'; ''; 'a,a\nb,a\na'
ViewTexts ==
    {
     <<"a", ",", "b", "\n", "a", ",", "A", "\n", "b", ",", "\n", "A", "b", ",", "b">>,
     <<"a", ",", "b">>,
     <<>>,
     <<"a", ",", "a", "\n", "b", ",", "a", "\n", "a">>
    }

\* 'a,b,A,B,ab\n1,1,1,1,a\n,,,,B\n1': five columns, for the filter of the simple variant
FiveColumnText ==
    <<"a", ",", "b", ",", "A", ",", "B", ",", "a", "b", "\n",
      "1", ",", "1", ",", "1", ",", "1", ",", "a", "\n",
      ",", ",", ",", ",", "B", "\n", "1">>

\* the files a variant is run on
TextsOf(v) ==
    IF v = "simple" THEN ViewTexts \cup {FiveColumnText} ELSE ViewTexts \cup {LongText}

Init ==
    /\ ScanIdle
    /\ FilterIdle
    /\ variant \in Variants
    /\ csvText \in TextsOf(variant)
    /\ ViewConstructed

Next == LoadNext \/ DebouncedNext \/ ExplicitNext \/ SimpleNext

Spec == Init /\ [][Next]_vars

\* ---- the three variants with the load going on: the fetch settles, and the
\* continuation of loadCSVData runs

ShortInit ==
    /\ ScanIdle
    /\ FilterIdle
    /\ variant \in Variants
    /\ csvText \in TextsOf(variant) \ {LongText}
    /\ ViewConstructed

FairLoadSpec == ShortInit /\ [][Next]_vars /\ WF_vars(LoadNext)

\* ---- the debounced variant with its timeouts firing: a timeout that stays set fires

DebouncedInit ==
    /\ ScanIdle
    /\ FilterIdle
    /\ variant = "debounced"
    /\ csvText \in ViewTexts
    /\ ViewConstructed

FairNext == LoadNext \/ DebouncedNext

FairSpec ==
    /\ DebouncedInit
    /\ [][FairNext]_vars
    /\ WF_vars(DebounceTimerFires)
    /\ WF_vars(FilterTimerFires)

-----------------------------------------------------------------------------
(* C1: the fields of a line, stated without the scan *)

\* the number of double quotes among the first k characters of ln
QuotesBefore(ln, k) == Cardinality({j \in 1..k : ln[j] = Quote})

\* the character at (zero-based) k is a comma with an even number of quotes before it
IsSeparator(ln, k) == CharAt(ln, k) = Comma /\ QuotesBefore(ln, k) % 2 = 0

Separators(ln) == {k \in 0..(Len(ln) - 1) : IsSeparator(ln, k)}

\* the character at k reaches a field: every character but a separator and a quote;
\* of the quotes, the second of an escaped pair
IsEmitted(ln, k) ==
    IF CharAt(ln, k) = Quote
    THEN QuotesBefore(ln, k) % 2 = 0 /\ CharAt(ln, k - 1) = Quote
    ELSE ~IsSeparator(ln, k)

RECURSIVE EmittedBetween(_, _, _)
EmittedBetween(ln, from, to) ==
    IF from >= to THEN <<>>
    ELSE IF IsEmitted(ln, from)
         THEN <<CharAt(ln, from)>> \o EmittedBetween(ln, from + 1, to)
         ELSE EmittedBetween(ln, from + 1, to)

\* the n-th separator (n >= 1) in increasing order; -1 for n = 0, Len(ln) past the last
SeparatorAt(ln, n) ==
    IF n = 0 THEN -1
    ELSE IF n > Cardinality(Separators(ln)) THEN Len(ln)
    ELSE CHOOSE k \in Separators(ln) : Cardinality({m \in Separators(ln) : m < k}) = n - 1

ExpectedFields(ln) ==
    [n \in 1..(Cardinality(Separators(ln)) + 1) |->
        trim(EmittedBetween(ln, SeparatorAt(ln, n - 1) + 1, SeparatorAt(ln, n)))]

\* C1: at every loop head the quote flag is the parity of the quotes read and the
\* fields pushed are as many as the commas read outside quotes; the fields returned
\* are the trimmed texts between those commas, quotes removed and each escaped
\* pair kept as one quote, so there are 1 + (commas outside quotes) of them.
C1_ScanFields ==
    /\ scanPc = "loop" =>
          /\ i <= Len(line)
          /\ inQuotes = (QuotesBefore(line, i) % 2 = 1)
          /\ Len(result) = Cardinality({k \in Separators(line) : k < i})
          /\ currentValue =
                EmittedBetween(line, SeparatorAt(line, Len(result)) + 1, i)
    /\ scanPc = "done" =>
          /\ result = ExpectedFields(line)
          /\ Len(result) = 1 + Cardinality(Separators(line))
          /\ result = parseCSVLine(line)

\* a returned line with a comma inside quotes that split nothing and one outside that did
C1_Witness ==
    /\ scanPc = "done"
    /\ \E k \in 0..(Len(line) - 1) : CharAt(line, k) = Comma /\ ~IsSeparator(line, k)
    /\ Cardinality(Separators(line)) = 1
    /\ Len(result) = 2
    /\ \E n \in 1..2 : \E k \in 1..Len(result[n]) : result[n][k] = Comma

\* a returned line whose field holds a literal quote from an escaped pair
C1_WitnessEscaped ==
    /\ scanPc = "done"
    /\ \E k \in 1..Len(result[1]) : result[1][k] = Quote

-----------------------------------------------------------------------------
(* The text of a file, stated without split: pieces between separators *)

PositionsOf(s, c) == {k \in 1..Len(s) : s[k] = c}

\* the n-th piece (n >= 1) of s cut at every c
PieceOf(s, c, n) ==
    LET cuts == PositionsOf(s, c)
        cutAt(m) == IF m = 0 THEN 0
                    ELSE IF m > Cardinality(cuts) THEN Len(s) + 1
                    ELSE CHOOSE k \in cuts : Cardinality({j \in cuts : j < k}) = m - 1
    IN  SubSeq(s, cutAt(n - 1) + 1, cutAt(n) - 1)

PieceCount(s, c) == Cardinality(PositionsOf(s, c)) + 1

\* line n (n >= 1) of the text; line 1 is the header line
TextLine(text, n) == PieceOf(text, LF, n)

\* the column names of the header line, by position
HeaderFields(text) ==
    [k \in 1..PieceCount(TextLine(text, 1), Comma) |-> trim(PieceOf(TextLine(text, 1), Comma, k))]

HeaderNameSet(text) == Range(HeaderFields(text))

DistinctHeaders(text) ==
    \A p, q \in 1..Len(HeaderFields(text)) :
        p # q => HeaderFields(text)[p] # HeaderFields(text)[q]

\* the numbers of the lines after the first that are not blank
DataLineNumbers(text) ==
    {n \in 2..PieceCount(text, LF) : \E k \in 1..Len(TextLine(text, n)) :
                                         ~IsWhitespace(TextLine(text, n)[k])}

\* the k-th of them
DataLine(text, k) ==
    TextLine(text, CHOOSE n \in DataLineNumbers(text) :
                       Cardinality({m \in DataLineNumbers(text) : m < n}) = k - 1)

\* the fields of the k-th data line
DataFields(text, k) == ExpectedFields(trim(DataLine(text, k)))

\* loadCSVData got the text and parsed it
Parsed == loadPc = "done" /\ error = NoError

\* the same in a variant whose view holds a header list and a filter map (the simple
\* variant of part_001:410-647 has neither)
ParsedWithFilterMap == Parsed /\ variant # "simple"

-----------------------------------------------------------------------------
(* C2 *)

\* C2: for a file whose header names are pairwise distinct, every row has exactly the
\* header names as keys, in header order; the key at position p holds the line's
\* field p, or '' when the line has no field p, and fields past the last header are
\* in no row. For every file, all rows have the keys of the first row.
C2_RowsZipHeaders ==
    Parsed =>
        /\ \A k \in 1..Len(data) : data[k].keys = data[1].keys
        /\ DistinctHeaders(csvText) =>
              \A k \in 1..Len(data) :
                  /\ data[k].keys = HeaderFields(csvText)
                  /\ DOMAIN data[k].val = HeaderNameSet(csvText)
                  /\ \A p \in 1..Len(HeaderFields(csvText)) :
                        data[k].val[HeaderFields(csvText)[p]] =
                            IF p <= Len(DataFields(csvText, k))
                            THEN DataFields(csvText, k)[p]
                            ELSE <<>>

\* two distinct headers and a line with one field: the second key is padded
C2_Witness ==
    /\ Parsed
    /\ DistinctHeaders(csvText)
    /\ Len(HeaderFields(csvText)) = 2
    /\ Len(data) = 1
    /\ Len(DataFields(csvText, 1)) = 1
    /\ data[1].val[HeaderFields(csvText)[1]] # <<>>
    /\ data[1].val[HeaderFields(csvText)[2]] = <<>>

\* one header and a line with two fields: the second field is dropped
C2_WitnessSurplus ==
    /\ Parsed
    /\ Len(HeaderFields(csvText)) = 1
    /\ Len(data) = 1
    /\ Len(DataFields(csvText, 1)) = 2
    /\ DataFields(csvText, 1)[2] # <<>>

-----------------------------------------------------------------------------
(* C3 *)

\* C3: the rows are as many as the lines after the first that are not blank, and row
\* k is the row built from the k-th such line.
C3_OneRowPerDataLine ==
    Parsed =>
        /\ Len(data) = Cardinality(DataLineNumbers(csvText))
        /\ \A k \in 1..Len(data) :
              data[k] = BuildRow(HeaderFields(csvText), DataFields(csvText, k))

\* a blank line and a whitespace-only line between two data lines that differ
C3_Witness ==
    /\ Parsed
    /\ PieceCount(csvText, LF) > 1 + Cardinality(DataLineNumbers(csvText))
    /\ \E n \in 2..PieceCount(csvText, LF) :
          n \notin DataLineNumbers(csvText) /\ TextLine(csvText, n) # <<>>
    /\ Len(data) = 1

\* two rows that differ, in the order of their lines
C3_WitnessOrder ==
    /\ Parsed
    /\ Len(data) = 2
    /\ data[1] # data[2]

-----------------------------------------------------------------------------
(* C4 *)

\* C4: parsing raises nothing for any text (the only error after an ok fetch is a
\* failed read of the body), the empty text leaves headers and rows empty, the
\* filter raises nothing for any rows and filter map, and of no rows it returns none.
C4_Total ==
    /\ loadPc = "done" => error # TypeError
    /\ (Parsed /\ csvText = <<>>) => (headers = <<>> /\ data = <<>>)
    /\ filterPc # "threw"
    /\ (filterPc = "done" /\ dataToFilter = <<>>) => filtered = <<>>

\* a text with a quote opened and never closed was parsed into a row
C4_Witness ==
    /\ Parsed
    /\ Len(data) = 1
    /\ QuotesBefore(DataLine(csvText, 1), Len(DataLine(csvText, 1))) % 2 = 1

\* the empty text was parsed
C4_WitnessEmpty == Parsed /\ csvText = <<>>

\* a filter on a column that a row does not have returned
C4_WitnessFilter ==
    /\ filterPc = "done"
    /\ \E k \in 1..Len(dataToFilter) : \E column \in DOMAIN filtersToApply :
          trim(filtersToApply[column]) # <<>> /\ ~HasKey(dataToFilter[k], column)

-----------------------------------------------------------------------------
(* C5 *)

\* the filter map with '' for every name of the header line, and nothing else
AllEmptyFilters(text) == [name \in HeaderNameSet(text) |-> <<>>]

\* C5 as claimed: after every parse of a text whose header line is not empty, the
\* filter map has one empty entry per column name and the header list holds the
\* names, whether or not a data row follows.
C5_AsClaimed ==
    (ParsedWithFilterMap /\ TextLine(csvText, 1) # <<>>) =>
        /\ filters = AllEmptyFilters(csvText)
        /\ Range(headers) = HeaderNameSet(csvText)

\* C5, amended: after a parse that found at least one data row, the filter map has
\* one empty entry per distinct column name of the header line and the header
\* list holds exactly those names; after a parse that found no data row, the
\* filter map and the header list are still empty.
C5_FiltersInitialized ==
    ParsedWithFilterMap =>
        IF Cardinality(DataLineNumbers(csvText)) > 0
        THEN /\ filters = AllEmptyFilters(csvText)
             /\ Range(headers) = HeaderNameSet(csvText)
        ELSE /\ filters = <<>>
             /\ headers = <<>>

\* a file of two columns and a data row was parsed
C5_Witness ==
    /\ ParsedWithFilterMap
    /\ Cardinality(HeaderNameSet(csvText)) = 2
    /\ Cardinality(DataLineNumbers(csvText)) > 0
    /\ DOMAIN filters = HeaderNameSet(csvText)

-----------------------------------------------------------------------------
(* C6 *)

\* C6: after a load that found a data row, the header list is the sequence of the
\* trimmed fields of the first line: same order, one entry per position.
C6_HeadersAreFirstLine ==
    (ParsedWithFilterMap /\ Len(data) > 0) => headers = HeaderFields(csvText)

-----------------------------------------------------------------------------
(* C7 *)

\* the last position of the header line that holds name
LastPosition(text, name) ==
    CHOOSE p \in 1..Len(HeaderFields(text)) :
        /\ HeaderFields(text)[p] = name
        /\ \A q \in (p + 1)..Len(HeaderFields(text)) : HeaderFields(text)[q] # name

\* C7: whatever names repeat in the header line, parsing raises nothing and every
\* row holds each name once, with the value assigned for the last position of
\* the name: the line's field there, or '' when the line has no field there.
C7_LastWriteWins ==
    /\ loadPc = "done" => error # TypeError
    /\ Parsed =>
        \A k \in 1..Len(data) :
            /\ DOMAIN data[k].val = HeaderNameSet(csvText)
            /\ \A name \in HeaderNameSet(csvText) :
                  /\ Cardinality({p \in 1..Len(data[k].keys) : data[k].keys[p] = name}) = 1
                  /\ data[k].val[name] =
                        IF LastPosition(csvText, name) <= Len(DataFields(csvText, k))
                        THEN DataFields(csvText, k)[LastPosition(csvText, name)]
                        ELSE <<>>

\* a name at two positions of the header line and a row whose field at the first
\* of them is not the value the row holds
C7_Witness ==
    /\ Parsed
    /\ Len(data) > 0
    /\ \E p, q \in 1..Len(HeaderFields(csvText)) :
          /\ p < q
          /\ HeaderFields(csvText)[p] = HeaderFields(csvText)[q]
          /\ p <= Len(DataFields(csvText, 1))
          /\ DataFields(csvText, 1)[p] # data[1].val[HeaderFields(csvText)[p]]

-----------------------------------------------------------------------------
(* C8 *)

\* t occurs in s
OccursIn(t, s) == \E u, v \in 0..Len(s) : u + Len(t) + v = Len(s) /\ SubSeq(s, u + 1, u + Len(t)) = t

\* the cell of a row, '' when the row has no such column
CellOrEmpty(row, column) == IF column \in DOMAIN row.val THEN row.val[column] ELSE <<>>

\* an entry that constrains: its trimmed value is not empty
IsActive(F, column) == \E k \in 1..Len(F[column]) : ~IsWhitespace(F[column][k])

\* the row satisfies every active entry
Satisfies(row, F) ==
    \A column \in DOMAIN F :
        IsActive(F, column) =>
            OccursIn(toLowerCase(trim(F[column])), toLowerCase(CellOrEmpty(row, column)))

\* the rows of R that satisfy F, in the order of R
RECURSIVE Satisfying(_, _)
Satisfying(R, F) ==
    IF R = <<>> THEN <<>>
    ELSE IF Satisfies(Head(R), F) THEN <<Head(R)>> \o Satisfying(Tail(R), F)
    ELSE Satisfying(Tail(R), F)

\* C8: the rows returned are the rows that, for every entry with a non-blank
\* value, hold the lower-cased trimmed value in the lower-cased cell of that column.
C8_FilterSemantics ==
    filterPc = "done" => filtered = Satisfying(dataToFilter, filtersToApply)

\* two active entries, one row kept and one row dropped
C8_Witness ==
    /\ filterPc = "done"
    /\ Cardinality({column \in DOMAIN filtersToApply : IsActive(filtersToApply, column)}) = 2
    /\ Len(dataToFilter) = 2
    /\ Len(filtered) = 1

-----------------------------------------------------------------------------
(* C9 *)

\* C9: when no entry of the filter map is active, the rows returned are the rows given.
C9_BlankFiltersIdentity ==
    (filterPc = "done" /\ \A column \in DOMAIN filtersToApply : ~IsActive(filtersToApply, column))
        => filtered = dataToFilter

\* a whitespace-only entry and two rows, both returned
C9_Witness ==
    /\ filterPc = "done"
    /\ \A column \in DOMAIN filtersToApply : ~IsActive(filtersToApply, column)
    /\ \E column \in DOMAIN filtersToApply : filtersToApply[column] # <<>>
    /\ Len(dataToFilter) = 2
    /\ filtered = dataToFilter

\* the filter map with no entry, and rows
C9_WitnessNoEntries ==
    /\ filterPc = "done"
    /\ filtersToApply = <<>>
    /\ Len(dataToFilter) = 2

-----------------------------------------------------------------------------
(* C10 *)

\* the length of the shortest prefix of t that holds the elements of s in their
\* order, Len(t) + 1 when none does
RECURSIVE ShortestPrefix(_, _)
ShortestPrefix(s, t) ==
    IF Len(s) = 0 THEN 0
    ELSE IF Len(s) = 1
    THEN (IF \E j \in 1..Len(t) : t[j] = s[1]
          THEN CHOOSE j \in 1..Len(t) : t[j] = s[1] /\ \A m \in 1..(j - 1) : t[m] # s[1]
          ELSE Len(t) + 1)
    ELSE LET half == Len(s) \div 2
             p == ShortestPrefix(SubSeq(s, 1, half), t)
             q == ShortestPrefix(SubSeq(s, half + 1, Len(s)), SubSeq(t, p + 1, Len(t)))
         IN  IF p > Len(t) \/ q > Len(t) - p THEN Len(t) + 1 ELSE p + q

\* s is t with some elements left out
IsSubsequence(s, t) == ShortestPrefix(s, t) <= Len(t)

\* C10: in every state of the view, filteredData is data with some rows left out.
C10_ShownIsSubsequence == IsSubsequence(filteredData, data)

\* the first and the last of three rows are shown
C10_Witness ==
    /\ Len(data) = 3
    /\ filteredData = <<data[1], data[3]>>
    /\ data[1] # data[3]

-----------------------------------------------------------------------------
(* C11 *)

\* C11: filtering the rows that applyFilters returned, with the same filter map,
\* raises nothing and returns those rows again.
C11_Idempotent ==
    /\ filterPc # "threw"
    /\ (filterPc = "again" => filteredAgain = filtered)

\* an active entry that kept one of two rows, filtered again
C11_Witness ==
    /\ filterPc = "again"
    /\ \E column \in DOMAIN filtersToApply : IsActive(filtersToApply, column)
    /\ Len(dataToFilter) = 2
    /\ Len(filtered) = 1

-----------------------------------------------------------------------------
(* C12 *)

\* the steps that run a filter pass: the filter effect's timeout and Enter in the
\* debounced variant; Apply or Enter and the quick actions in the explicit-apply one
PassEvents ==
    {"FilterTimerFires", "handleKeyDown", "applyFiltersExplicit", "showAllRows",
     "clearAndShowAll"}

\* C12: the rows a filter pass writes to filteredData are applyFilters of the filter
\* map the pass used and the full row set data, whatever filteredData was before.
C12_PassOverFullData ==
    history.event \in PassEvents => filteredData = applyFilters(history.used, data)

\* a pass that follows a tighter one: rows that were hidden are shown again
C12_Witness ==
    /\ history.event \in PassEvents
    /\ Len(history.filteredData) >= 1
    /\ Len(filteredData) > Len(history.filteredData)
    /\ \E column \in DOMAIN history.used : IsActive(history.used, column)

\* the same in the debounced variant, by the filter effect's timeout
C12_WitnessDebounced ==
    /\ history.event = "FilterTimerFires"
    /\ Len(history.filteredData) >= 1
    /\ Len(filteredData) > Len(history.filteredData)

-----------------------------------------------------------------------------
(* C13 *)

\* the first n elements of s, all of s when it has fewer
FirstRows(s, n) == [k \in 1..(IF n < Len(s) THEN n ELSE Len(s)) |-> s[k]]

\* C13: the rows rendered are the first rowsToDisplay rows of filteredData (the first
\* 100 in the explicit-apply variant), all of them when there are fewer; and a change
\* of rowsToDisplay changes neither data nor the filter map nor filteredData.
C13_RenderedRows ==
    /\ variant = "debounced" => RenderedRows = FirstRows(filteredData, rowsToDisplay)
    /\ variant = "explicit" => RenderedRows = FirstRows(filteredData, 100)
    /\ history.event = "handleRowsToDisplayChange" =>
          /\ data = history.data
          /\ filters = history.filters
          /\ filteredData = history.filteredData

\* more rows than rowsToDisplay: 50 was picked, and 50 rows are rendered
C13_Witness ==
    /\ variant = "debounced"
    /\ history.event = "handleRowsToDisplayChange"
    /\ rowsToDisplay = 50
    /\ Len(filteredData) > 100
    /\ Len(RenderedRows) = 50
    /\ RenderedRows[50] = data[50]

\* the explicit-apply variant with more than 100 rows
C13_WitnessExplicit ==
    /\ variant = "explicit"
    /\ Len(filteredData) > 100
    /\ Len(RenderedRows) = 100

\* fewer rows than rowsToDisplay: all are rendered
C13_WitnessFewer ==
    /\ variant = "debounced"
    /\ Len(filteredData) = 2
    /\ Len(data) = 3
    /\ RenderedRows = filteredData

-----------------------------------------------------------------------------
(* C14 *)

\* the steps of the debounced variant that replace the filters object
EditEvents == {"handleFilterChange", "resetFilter", "resetAllFilters"}

\* the timeout of useDebounce for the filters object of this state
CurrentTimer == [value |-> filters, version |-> filtersVersion]

\* at most one timeout of useDebounce is set, it is for the current filters object,
\* and a change of the filter map leaves exactly that one set
OneDebounceTimer ==
    /\ Cardinality(debounceTimers) <= 1
    /\ debounceTimers \subseteq {CurrentTimer}
    /\ history.event \in EditEvents => debounceTimers = {CurrentTimer}

\* a filters object replaced while its timeout was set does not become the
\* debounced one
SupersededNeverDebounced ==
    debouncedVersion # history.debouncedVersion => debouncedVersion \notin history.superseded

\* C14 as claimed: one timeout at most, a superseded filter map never becomes the
\* debounced one, and no pass of the filter effect uses a superseded filter map.
C14_AsClaimed ==
    /\ OneDebounceTimer
    /\ SupersededNeverDebounced
    /\ \A timer \in filterTimers : timer.version \notin history.superseded
    /\ history.event = "FilterTimerFires" => history.usedVersion \notin history.superseded

\* C14: one timeout at most, a superseded filter map never becomes the debounced
\* one, and no pass of the filter effect uses a superseded filter map other than the
\* initial empty one (object 0), which is the debounced map from construction on.
C14_DebounceSingleTimer ==
    /\ OneDebounceTimer
    /\ SupersededNeverDebounced
    /\ \A timer \in filterTimers :
          timer.version # 0 => timer.version \notin history.superseded
    /\ (history.event = "FilterTimerFires" /\ history.usedVersion # 0)
          => history.usedVersion \notin history.superseded

\* two changes in one delay window: the first object was superseded, the second
\* became the debounced one and the pass used it
C14_Witness ==
    /\ history.event = "FilterTimerFires"
    /\ history.usedVersion = 3
    /\ 2 \in history.superseded
    /\ debouncedVersion = 3
    /\ debounceTimers = {}

-----------------------------------------------------------------------------
(* C15 *)

\* the fetch did not succeed: a response that is not ok, or a rejected promise
FetchFailed == loadPc = "done" /\ error \in {StatusError, TransportError}

\* C15: after a fetch that did not succeed the view shows a message, is not loading
\* and holds no data; fetch is called once at most; and error is never set while
\* data is not empty.
C15_FetchFailure ==
    /\ FetchFailed =>
          /\ ~isLoading
          /\ data = <<>>
          /\ headers = <<>>
          /\ filters = <<>>
          /\ filteredData = <<>>
    /\ fetchCount <= 1
    /\ error # NoError => data = <<>>

\* a response that is not ok, in the variant that throws an Error for it
C15_Witness ==
    /\ variant = "simple"
    /\ history.event = "FetchNotOk"
    /\ error = StatusError
    /\ fetchCount = 1

\* a rejected fetch in the debounced variant, and the timeout set at mount has fired
C15_WitnessRejected ==
    /\ variant = "debounced"
    /\ error = TransportError
    /\ history.event = "DebounceTimerFires"

-----------------------------------------------------------------------------
(* C16 *)

\* the filter map holds '' for every column of the header list, and nothing else
AllColumnsEmpty ==
    /\ DOMAIN filters = {headers[k] : k \in 1..Len(headers)}
    /\ \A column \in DOMAIN filters : filters[column] = <<>>

\* the filters object is the one the last reset-all made, it has become the debounced
\* one, and the pass scheduled for it has run
ResetPassHasRun ==
    /\ variant = "debounced"
    /\ history.reset = filtersVersion
    /\ debouncedVersion = filtersVersion
    /\ filterTimers = {}

\* C16: after reset-all the filter map holds '' for every header and no other entry;
\* in the explicit-apply variant filteredData is data in the same step, in the
\* debounced variant it is data once the debounced pass for the reset map has run.
C16_ResetAll ==
    /\ history.event \in {"resetAllFilters", "resetAllFiltersExplicit"} => AllColumnsEmpty
    /\ history.event = "resetAllFiltersExplicit" => filteredData = data
    /\ ResetPassHasRun => AllColumnsEmpty /\ filteredData = data

\* the debounced variant: a filter hid rows, reset-all, and the pass brought them back
C16_Witness ==
    /\ ResetPassHasRun
    /\ history.event = "FilterTimerFires"
    /\ history.usedVersion = filtersVersion
    /\ Len(history.filteredData) >= 1
    /\ Len(history.filteredData) < Len(data)
    /\ filteredData = data

\* the explicit-apply variant: reset-all with rows hidden and a filter typed
C16_WitnessExplicit ==
    /\ history.event = "resetAllFiltersExplicit"
    /\ Len(history.filteredData) < Len(data)
    /\ \E column \in DOMAIN history.filters : history.filters[column] # <<>>

-----------------------------------------------------------------------------
(* C17 *)

\* the debounced variant with rows loaded
Loaded == variant = "debounced" /\ Len(data) > 0

\* what is shown is the filter map applied to the rows, and no pass is announced
Settled == filteredData = applyFilters(filters, data) /\ ~isFiltering

\* C17: in the debounced variant with its timeouts firing, once the filter map has
\* stopped changing (it changes MaxEdits times at most), filteredData is
\* applyFilters(filters, data) and isFiltering is false from some point on, for good.
C17_EventuallySettled == <>[](Loaded => Settled)

\* a reset-all made a new filters object of the content the last pass had used; its
\* own pass has run and nothing is pending
C17_Witness ==
    /\ Loaded
    /\ Settled
    /\ history.event = "FilterTimerFires"
    /\ history.reset = filtersVersion
    /\ history.usedVersion = filtersVersion
    /\ history.filteredData = data
    /\ debounceTimers = {}
    /\ filterTimers = {}

\* an edit, Enter, and a single reset before the quiet period
C17_WitnessMixed ==
    /\ Loaded
    /\ Settled
    /\ history.event = "FilterTimerFires"
    /\ history.forced = 2
    /\ filtersVersion = 3
    /\ debounceTimers = {}

-----------------------------------------------------------------------------
(* C18 *)

\* Enter was pressed with the filters object of this state
EnterStands == variant = "debounced" /\ history.forced = filtersVersion

\* C18: in the debounced variant, from Enter on and as long as the filter map is not
\* changed, filteredData is applyFilters(filters, data): Enter sets it, and no pass
\* scheduled before replaces it with the rows of an older filter map.
C18_EnterForces == EnterStands => filteredData = applyFilters(filters, data)

\* Enter itself sets the rows of the current filter map
C18_EnterSets ==
    history.event = "handleKeyDown" => filteredData = applyFilters(filters, data)

\* a pass scheduled before Enter, for an older filter map, has replaced Enter's rows
C18_StalePassAfterEnter ==
    /\ EnterStands
    /\ history.event = "FilterTimerFires"
    /\ history.usedVersion < filtersVersion
    /\ history.filteredData = applyFilters(filters, data)
    /\ filteredData # applyFilters(filters, data)

-----------------------------------------------------------------------------
(* C19 *)

\* C19: in the explicit-apply variant, after 'clear and show all' every entry of the
\* filter map is empty and filteredData is data; after 'show all rows' the entry of the
\* first column is empty and filteredData is applyFilters(filters, data) for the
\* updated filter map.
C19_QuickActionsShowAll ==
    /\ history.event = "clearAndShowAll" =>
          AllColumnsEmpty /\ filteredData = data
    /\ history.event = "showAllRows" =>
          /\ FilterOf(filters, headers[1]) = <<>>
          /\ filteredData = applyFilters(filters, data)

\* after 'clear and show all' the filter map is empty, and the rows are those of the
\* filter map before the click, not all rows
C19_ClearedButOldRows ==
    /\ history.event = "clearAndShowAll"
    /\ AllColumnsEmpty
    /\ ~applyFiltersThrows(history.filters, data)
    /\ filteredData = applyFilters(history.filters, data)
    /\ filteredData # data

\* after 'show all rows' the rows are those of the filter map before the click
C19_ShownOldRows ==
    /\ history.event = "showAllRows"
    /\ FilterOf(filters, headers[1]) = <<>>
    /\ ~applyFiltersThrows(history.filters, data)
    /\ filteredData = applyFilters(history.filters, data)
    /\ filteredData # applyFilters(filters, data)

-----------------------------------------------------------------------------
(* C20 *)

ExplicitEdits == {"handleFilterChangeExplicit", "resetFilterExplicit"}

\* the events of the explicit-apply variant that set filteredData: the load that sets
\* it first, Apply and Enter (both applyFilters), reset-all, and the two quick actions
ExplicitTriggers ==
    {"TextResolved", "applyFiltersExplicit", "resetAllFiltersExplicit", "showAllRows",
     "clearAndShowAll"}

\* the columns whose entry differs between two filter maps
ChangedEntries(F, G) ==
    {column \in DOMAIN F \cup DOMAIN G : FilterOf(F, column) # FilterOf(G, column)}

\* C20: in the explicit-apply variant, handleFilterChange and resetFilter change exactly
\* one entry of the filter map and leave filteredData, data and headers as they were;
\* filteredData changes only on Apply, Enter, reset-all or a quick action (and when the
\* load sets it).
C20_EditFrame ==
    variant = "explicit" =>
        /\ history.event \in ExplicitEdits =>
              /\ Cardinality(ChangedEntries(filters, history.filters)) = 1
              /\ DOMAIN filters = DOMAIN history.filters
              /\ filteredData = history.filteredData
              /\ data = history.data
              /\ headers = history.headers
        /\ filteredData # history.filteredData => history.event \in ExplicitTriggers

\* after an edit the rows shown are not those of the current filter map
C20_Witness ==
    /\ variant = "explicit"
    /\ history.event = "handleFilterChangeExplicit"
    /\ ~applyFiltersThrows(filters, data)
    /\ filteredData # applyFilters(filters, data)
    /\ filteredData = history.filteredData

\* the same after clearing one entry of an applied filter
C20_WitnessReset ==
    /\ variant = "explicit"
    /\ history.event = "resetFilterExplicit"
    /\ Len(filteredData) < Len(data)
    /\ filteredData = history.filteredData
    /\ applyFilters(filters, data) = data

-----------------------------------------------------------------------------
(* C21 *)

\* while isFiltering is true exactly one timeout of the filter effect is set; the pass
\* of that timeout leaves isFiltering false; isFiltering is true only with rows loaded
FilteringHasItsTimer ==
    variant = "debounced" =>
        /\ isFiltering => Cardinality(filterTimers) = 1
        /\ history.event = "FilterTimerFires" => ~isFiltering
        /\ isFiltering => Len(data) > 0

\* C21: in the debounced variant, whenever isFiltering is true exactly one 0 ms timeout
\* of the filter effect is set, every pass of that timeout sets isFiltering to false
\* (also when applyFilters throws), isFiltering is never true while data is empty, and
\* so, with the timeout firing, isFiltering never stays true for ever.
C21_FilteringEnds == []FilteringHasItsTimer /\ (isFiltering ~> ~isFiltering)

\* a new debounced map replaced the timeout of a pass that had not run
C21_Witness ==
    /\ variant = "debounced"
    /\ isFiltering
    /\ Cardinality(filterTimers) = 1
    /\ history.event = "DebounceTimerFires"
    /\ debouncedVersion # history.debouncedVersion
    /\ history.debouncedVersion >= 1
    /\ history.usedVersion < history.debouncedVersion

\* the pass of the one timeout ran: no timeout is left and isFiltering is false
C21_WitnessPassRan ==
    /\ variant = "debounced"
    /\ history.event = "FilterTimerFires"
    /\ history.usedVersion >= 2
    /\ filterTimers = {}
    /\ ~isFiltering

\* a load of no rows: the filter effect has set neither the flag nor a timeout
C21_WitnessNoRows ==
    /\ variant = "debounced"
    /\ loadPc = "done"
    /\ error = NoError
    /\ Len(data) = 0
    /\ ~isFiltering
    /\ filterTimers = {}

-----------------------------------------------------------------------------
(* C22 *)

\* loadCSVData has not reached its end: isLoading is true
LoadingUntilSettled == loadPc # "done" => isLoading

\* the text was read and parseCSV found no row in it
ReadNoRows ==
    /\ history.event = "TextResolved"
    /\ ~parseCSV(csvText).threw
    /\ Len(parseCSV(csvText).rows) = 0

\* a load of a text without rows has ended with error null and data empty
NoRowsNoError == ReadNoRows => (error = NoError /\ data = <<>> /\ ~isLoading)

\* C22: isLoading is true from the start of the load until loadCSVData ends; with the
\* fetch settling, it becomes false on every path (rows, no rows, a response that is
\* not ok, a rejected fetch or read), and it is never true again; a load of a text
\* without rows ends with error null and data empty.
C22_LoadingEnds ==
    /\ [](LoadingUntilSettled /\ NoRowsNoError)
    /\ <>(~isLoading)
    /\ [][~isLoading => ~isLoading']_vars

\* a load that read a header line and no row
C22_Witness ==
    /\ ReadNoRows
    /\ csvText # <<>>
    /\ ~isLoading
    /\ error = NoError
    /\ data = <<>>

\* a load that read rows
C22_WitnessRows == history.event = "TextResolved" /\ Len(data) > 0 /\ ~isLoading

\* a response that was not ok
C22_WitnessNotOk == history.event = "FetchNotOk" /\ error = StatusError /\ ~isLoading

\* a read that was rejected
C22_WitnessRejected == history.event = "TextRejected" /\ ~isLoading

\* isLoading is still false after the handlers have run
C22_WitnessLater ==
    /\ ~isLoading
    /\ history.event \in {"FilterTimerFires", "applyFiltersExplicit", "applyFilter"}

-----------------------------------------------------------------------------
(* C23 *)

\* the line holds a quote that is not closed on it
UnclosedQuote(ln) == QuotesBefore(ln, Len(ln)) % 2 = 1

\* the text of the header line and the k-th data line alone
HeaderAndLine(text, k) == TextLine(text, 1) \o <<LF>> \o DataLine(text, k)

\* the line feeds of the text that stand inside quotes, the quotes counted from the
\* start of the text
QuotedLineFeeds(text) ==
    {p \in PositionsOf(text, LF) : QuotesBefore(text, p) % 2 = 1}

\* C23: the text is cut at every line feed, quoted or not, and each line is scanned
\* from inQuotes = false: the rows are as many as the non-blank pieces after the
\* first, and row k is the one row of the text made of the header line and the k-th
\* of them alone, whatever quotes the lines before it leave open.
C23_LineFeedsSplitFirst ==
    Parsed =>
        /\ Len(data) = Cardinality(DataLineNumbers(csvText))
        /\ \A k \in 1..Len(data) :
              /\ ~parseCSV(HeaderAndLine(csvText, k)).threw
              /\ parseCSV(HeaderAndLine(csvText, k)).rows = <<data[k]>>
              /\ data[k] = BuildRow(HeaderFields(csvText), DataFields(csvText, k))

\* a line feed inside a quoted field: the field's two halves are two rows
C23_Witness ==
    /\ Parsed
    /\ \E p \in QuotedLineFeeds(csvText) :
          /\ PositionsOf(csvText, Quote) = {p - 1, p + 1}
    /\ Len(data) = 2

\* a data line with an unclosed quote, and the line after it split at its comma
C23_WitnessLaterLine ==
    /\ Parsed
    /\ Len(data) = 2
    /\ UnclosedQuote(DataLine(csvText, 1))
    /\ Len(DataFields(csvText, 2)) = 2

=============================================================================
